---- MODULE Spec2Model ----
(***************************************************************************)
(* Model of dip_catcher: the cache-and-refresh layer                      *)
(* (src/src/dip_catcher/sources/cache.py), the display path that uses it   *)
(* (_load_and_display and _background_refresh of src/src/dip_catcher/     *)
(* app.py) and the indicators, the drawdown-event detector, the scoring   *)
(* functions and analyze of src/src/dip_catcher/logic.py.                  *)
(*                                                                         *)
(* Dates of price rows are day numbers; the wall clock is counted in      *)
(* hours since 2024-01-01 00:00 (a Monday); a DataFrame is a sequence of   *)
(* rows [date, close]; a string is a sequence of one-character strings; a  *)
(* float is a fraction in lowest terms, so float rounding is not modelled. *)
(***************************************************************************)
EXTENDS Integers, Sequences, FiniteSets, TLC

VARIABLES
    files,      \* cache directory: file name -> NoFile or [rows, mtime]
    now,        \* wall clock, hours since 2024-01-01 00:00
    op,         \* the operation that ran last and its arguments
    calls,      \* provider calls made by the last operation
    result,     \* what the last operation returned or raised
    response,   \* what the provider did in the last operation
    pre,        \* the cache file of the last operation's code before it ran
    pc,         \* "idle", or "done" while the caller holds the last result
    memo,       \* st.cache_data of _background_refresh: its live entries
    refreshed   \* history: when _background_refresh last ran for each code

vars == <<files, now, op, calls, result, response, pre, pc, memo, refreshed>>

----------------------------------------------------------------------------
(* Bounds *)

MaxDate == 2       \* price rows carry dates 1..MaxDate
MaxClose == 1      \* close values 1..MaxClose
MaxRows == 1       \* rows in one provider response
MaxNow == 1        \* hours the clock advances in Spec and SpecWide
MaxClock == 60     \* hours the clock advances in SpecClock
MaxCodeLen == 3    \* characters of an instrument code in SpecPath
MaxPeriod == 2     \* analysis periods of 1..MaxPeriod years in SpecDisplay
MaxDisplayHours == 4   \* hours the clock advances in SpecDisplay
MaxLen == 4        \* days of a price series in SpecEvents
MaxPrice == 2      \* closes -1..MaxPrice in SpecEvents
MaxDays == 6       \* days of a price history in SpecAnalyze
MaxQuote == 2      \* closes 0..MaxQuote in SpecAnalyze
MaxDepth == 40     \* drawdowns and deviations down to -MaxDepth/100 in SpecScore
MaxPercent == 100  \* percentiles and RSI values 0..MaxPercent in SpecScore
MaxScore == 125    \* sub-scores 0..MaxScore handed to _total_score in SpecScore

(* Program constants *)

MIN_REFRESH_INTERVAL == 3
PUBLISH_HOUR == 10
MIN_WINDOW == 5    \* the least ma_days, rsi_period and bb_period

Dates == 1..MaxDate
Closes == 1..MaxClose
Row == [date : Dates, close : Closes]

\* SpecWide has one more date, close value and row per response
WideDates == 1..(MaxDate + 1)
WideCloses == 1..(MaxClose + 1)
WideRow == [date : WideDates, close : WideCloses]

None == [kind |-> "None"]
NoFile == [kind |-> "NoFile"]

----------------------------------------------------------------------------
(* DataFrame helpers *)

Range(s) == {s[i] : i \in DOMAIN s}

SeqsUpTo(S, n) == UNION {[1..k -> S] : k \in 0..n}

MinDate(df) == CHOOSE d \in {r.date : r \in Range(df)} :
                   \A r \in Range(df) : d <= r.date

MaxDateOf(df) == CHOOSE d \in {r.date : r \in Range(df)} :
                   \A r \in Range(df) : d >= r.date

Max2(a, b) == IF a >= b THEN a ELSE b

IsSortedByDate(df) == \A i, j \in DOMAIN df : i < j => df[i].date <= df[j].date

HasUniqueDates(df) == \A i, j \in DOMAIN df : i # j => df[i].date # df[j].date

\* DataFrame.sort_values("date"): the default sort is not stable, so rows of
\* equal date may come out in any order.
SortValues(df) ==
    IF Len(df) = 0 THEN {<<>>}
    ELSE {t \in {[i \in 1..Len(df) |-> df[p[i]]] : p \in Permutations(1..Len(df))} :
              IsSortedByDate(t)}

\* DataFrame.drop_duplicates(subset=["date"]): keep="first"
DropDuplicates(df) ==
    LET keep(i) == \A j \in 1..(i - 1) : df[j].date # df[i].date
        F[i \in 0..Len(df)] ==
            IF i = 0 THEN <<>>
            ELSE IF keep(i) THEN Append(F[i - 1], df[i]) ELSE F[i - 1]
    IN F[Len(df)]

\* a filter that leaves out the rows of the end date
Filter_OpenEnd(df, start, end) ==
    SelectSeq(df, LAMBDA r : r.date >= start /\ r.date < end)

\* CachedSource._filter
Filter(df, start, end) ==
    SelectSeq(df, LAMBDA r : r.date >= start /\ r.date <= end)

\* a _next_fetch_start that always asks for the whole requested range
NextFetchStart_Full(cached_df, original_start) == original_start

\* CachedSource._next_fetch_start
NextFetchStart(cached_df, original_start) ==
    LET cache_start == MinDate(cached_df)
        next_day == MaxDateOf(cached_df) + 1
    IN IF cache_start > original_start THEN original_start
       ELSE Max2(next_day, original_start)

\* CachedSource._merge: the set of frames it may return; cached is None or
\* DF(rows), new is the provider's rows
Merge(cached, new) ==
    IF cached = None THEN SortValues(new)
    ELSE SortValues(DropDuplicates(cached.rows \o new))

----------------------------------------------------------------------------
(* Cache file names *)

WordChars == {"A", "7", "_"}
Alphabet == WordChars \cup {"-", ".", "/", "\\", "^"}
CodeStrings == SeqsUpTo(Alphabet, MaxCodeLen)

DataDir == << <<"d", "a", "t", "a">> >>

IsSep(c) == c = "/" \/ c = "\\"

\* a substitution that lets the separators through
ReSub_KeepSep(code) ==
    [i \in DOMAIN code |->
        IF code[i] \in WordChars \/ code[i] = "-" \/ code[i] = "." \/ IsSep(code[i])
        THEN code[i] ELSE "_"]

\* re.sub(r"[^\w\-.]", "_", code)
ReSub(code) ==
    [i \in DOMAIN code |->
        IF code[i] \in WordChars \/ code[i] = "-" \/ code[i] = "."
        THEN code[i] ELSE "_"]

SafeCode(code) ==
    LET safe_code == ReSub(code)
    IN IF safe_code = <<>> \/ safe_code = <<".">> \/ safe_code = <<".", ".">>
       THEN <<"_", "i", "n", "v", "a", "l", "i", "d", "_">>
       ELSE safe_code

\* The components of a path string: split at separators, empty and "."
\* components dropped, ".." kept (pathlib does not resolve it).
PathParts(name) ==
    LET F[i \in 0..Len(name)] ==
            \* <<finished components, component being read>>
            IF i = 0 THEN << <<>>, <<>> >>
            ELSE LET done == F[i - 1][1]
                     cur == F[i - 1][2]
                 IN IF IsSep(name[i])
                    THEN IF cur = <<>> \/ cur = <<".">> THEN <<done, <<>>>>
                         ELSE <<Append(done, cur), <<>>>>
                    ELSE <<done, Append(cur, name[i])>>
        last == F[Len(name)]
    IN IF last[2] = <<>> \/ last[2] = <<".">> THEN last[1]
       ELSE Append(last[1], last[2])

\* Path.__truediv__: an absolute right-hand side replaces the left-hand side
PathJoin(dir, name) ==
    IF name # <<>> /\ IsSep(name[1]) THEN PathParts(name)
    ELSE dir \o PathParts(name)

\* CachedSource._cache_path
CachePath(code) == PathJoin(DataDir, SafeCode(code) \o <<".", "c", "s", "v">>)

Parent(path) == SubSeq(path, 1, Len(path) - 1)

----------------------------------------------------------------------------
(* Calendar: a date is its day number in 2024, 0 = January 1st (a Monday);   *)
(* a datetime is a number of hours since 2024-01-01 00:00.                   *)

MonthLengths == <<31, 29, 31, 30, 31, 30, 31, 31, 30, 31, 30, 31>>

DaysBefore(m) ==
    LET F[k \in 0..12] == IF k = 0 THEN 0 ELSE F[k - 1] + MonthLengths[k]
    IN F[m - 1]

DateOf(t) == t \div 24          \* datetime.date()
HourOf(t) == t % 24             \* datetime.hour
Weekday(d) == d % 7             \* date.weekday(), Monday = 0
Month(d) == CHOOSE m \in 1..12 : DaysBefore(m) <= d /\ d < DaysBefore(m) + MonthLengths[m]
Day(d) == d - DaysBefore(Month(d)) + 1

FIXED_HOLIDAYS ==
    {<<1, 1>>, <<2, 11>>, <<2, 23>>, <<4, 29>>, <<5, 3>>, <<5, 4>>, <<5, 5>>,
     <<8, 11>>, <<11, 3>>, <<11, 23>>}

\* _is_jp_holiday_no_substitute
IsJpHolidayNoSubstitute(d) ==
    LET month == Month(d)
        day == Day(d)
        week_num == (day - 1) \div 7 + 1
    IN \/ <<month, day>> \in FIXED_HOLIDAYS
       \/ /\ Weekday(d) = 0
          /\ \/ month = 1 /\ week_num = 2
             \/ month = 7 /\ week_num = 3
             \/ month = 9 /\ week_num = 3
             \/ month = 10 /\ week_num = 2
       \/ month = 3 /\ day \in {20, 21}
       \/ month = 9 /\ day \in {22, 23}

\* _is_jp_holiday
IsJpHoliday(d) ==
    LET month == Month(d)
        day == Day(d)
        week_num == (day - 1) \div 7 + 1
    IN \/ <<month, day>> \in FIXED_HOLIDAYS
       \/ /\ Weekday(d) = 0
          /\ \/ month = 1 /\ week_num = 2
             \/ month = 7 /\ week_num = 3
             \/ month = 9 /\ week_num = 3
             \/ month = 10 /\ week_num = 2
       \/ month = 3 /\ day \in {20, 21}
       \/ month = 9 /\ day \in {22, 23}
       \/ Weekday(d) = 0 /\ IsJpHolidayNoSubstitute(d - 1)

\* is_jp_business_day
IsJpBusinessDay(d) ==
    IF Weekday(d) >= 5 THEN FALSE ELSE ~IsJpHoliday(d)

----------------------------------------------------------------------------
(* Cache files *)

File(rows, mtime) == [kind |-> "File", rows |-> rows, mtime |-> mtime]
DF(rows) == [kind |-> "df", rows |-> rows]

Exists(file) == file # NoFile

\* The file while a save is in progress: DataFrame.to_csv has opened it for
\* writing, which truncates it to zero bytes, and has not yet flushed the
\* rows. `old` is the file as it was, `new` the series being written.
Saving(old, new, mtime) ==
    [kind |-> "Saving", old |-> old, new |-> new, mtime |-> mtime]

\* CachedSource._load_cache: None when there is no file or the frame is empty;
\* pd.read_csv raises EmptyDataError on a file of zero bytes
LoadCacheFile(file) ==
    IF ~Exists(file) THEN None
    ELSE IF file.kind = "Saving" THEN [kind |-> "raise", exc |-> "EmptyDataError"]
    ELSE IF file.rows = <<>> THEN None
    ELSE DF(file.rows)

\* a touch that leaves the modification time alone
Touch_Keep(file, t) == file

\* Path.touch() on an existing file
Touch(file, t) == File(file.rows, t)

\* CachedSource._save_cache: DataFrame.to_csv overwrites the file
SaveCache(df, t) == File(df, t)

\* needs_refresh without the "already refreshed today" gate
NeedsRefreshAt_NoTodayGate(file, t) ==
    IF ~Exists(file) THEN TRUE
    ELSE IF ~IsJpBusinessDay(DateOf(t)) THEN FALSE
    ELSE IF HourOf(t) < PUBLISH_HOUR THEN FALSE
    ELSE IF (t - file.mtime) < MIN_REFRESH_INTERVAL THEN FALSE
    ELSE TRUE

\* needs_refresh that still waits when exactly the interval has elapsed
NeedsRefreshAt_Inclusive(file, t) ==
    IF ~Exists(file) THEN TRUE
    ELSE IF ~IsJpBusinessDay(DateOf(t)) THEN FALSE
    ELSE IF HourOf(t) < PUBLISH_HOUR THEN FALSE
    ELSE IF DateOf(file.mtime) = DateOf(t) /\ HourOf(file.mtime) >= PUBLISH_HOUR THEN FALSE
    ELSE IF (t - file.mtime) <= MIN_REFRESH_INTERVAL THEN FALSE
    ELSE TRUE

\* needs_refresh whose "already refreshed today" gate opens only an hour
\* after publication
NeedsRefreshAt_LateGate(file, t) ==
    IF ~Exists(file) THEN TRUE
    ELSE IF ~IsJpBusinessDay(DateOf(t)) THEN FALSE
    ELSE IF HourOf(t) < PUBLISH_HOUR THEN FALSE
    ELSE IF DateOf(file.mtime) = DateOf(t) /\ HourOf(file.mtime) > PUBLISH_HOUR THEN FALSE
    ELSE IF (t - file.mtime) < MIN_REFRESH_INTERVAL THEN FALSE
    ELSE TRUE

\* CachedSource.needs_refresh, for the file of the code at time t
NeedsRefreshAt(file, t) ==
    IF ~Exists(file) THEN TRUE
    ELSE LET today == DateOf(t)
             mtime == file.mtime
         IN IF ~IsJpBusinessDay(today) THEN FALSE
            ELSE IF HourOf(t) < PUBLISH_HOUR THEN FALSE
            ELSE IF DateOf(mtime) = today /\ HourOf(mtime) >= PUBLISH_HOUR THEN FALSE
            ELSE IF (t - mtime) < MIN_REFRESH_INTERVAL THEN FALSE
            ELSE TRUE

----------------------------------------------------------------------------
(* The provider: DataSource.fetch(code, start, end) returns rows or raises *)

CaughtExceptions == {"ValueError", "ConnectionError", "OSError", "TimeoutError"}

\* yahoo_jp.py lets Playwright's own errors escape; they derive from
\* Exception only, so the except clause of CachedSource.fetch misses them.
ProviderExceptions == {"ValueError", "ConnectionError", "PlaywrightError"}

Returned(rows) == [kind |-> "return", rows |-> rows]
Raised(exc) == [kind |-> "raise", exc |-> exc]
NotCalled == [kind |-> "not called"]

\* Everything a provider may do: return up to n of the rows, in any order
\* and with repeated dates, or raise
ProviderOutcomes(rows, n) ==
    {Returned(df) : df \in SeqsUpTo(rows, n)}
        \cup {Raised(exc) : exc \in ProviderExceptions}

\* A provider that holds the rows `rows` and answers every request with
\* those of them that lie in the requested range
FixedData(rows) == [kind |-> "data", rows |-> rows]

\* What a provider does when asked for [start, end]: the rows it returns lie
\* in the range
Provider(outcomes, start, end) ==
    {o \in outcomes :
        \/ o.kind = "raise"
        \/ o.kind = "return"
            /\ \A r \in Range(o.rows) : r.date >= start /\ r.date <= end}
    \cup {Returned(Filter(o.rows, start, end)) :
              o \in {x \in outcomes : x.kind = "data"}}

----------------------------------------------------------------------------
(* Operations of CachedSource *)

FetchResult(df, is_fallback, last_modified) ==
    [kind |-> "FetchResult", df |-> df, is_fallback |-> is_fallback,
     last_modified |-> last_modified]

Call(code, start, end) == [code |-> code, start |-> start, end |-> end]

\* a fallback result that does not carry the flag
FallbackResult_Unflagged(cached_df, start, end, mtime) ==
    FetchResult(Filter(cached_df.rows, start, end), FALSE, mtime)

\* the result of the except branch of fetch when a cache was loaded
FallbackResult(cached_df, start, end, mtime) ==
    FetchResult(Filter(cached_df.rows, start, end), TRUE, mtime)

\* a run that stamps the cache file when the provider failed
Run_TouchOnFailure(calls_, response_, file_, result_) ==
    [calls |-> calls_, response |-> response_,
     file |-> IF response_.kind = "raise" /\ Exists(file_)
              THEN File(file_.rows, file_.mtime + 1) ELSE file_,
     result |-> result_]

\* One run of CachedSource.fetch
Run(calls_, response_, file_, result_) ==
    [calls |-> calls_, response |-> response_, file |-> file_, result |-> result_]

\* CachedSource.fetch at time t on the cache file `file`, the provider's
\* behaviour drawn from `outcomes`: every run it can take, as the provider
\* calls it makes, what the provider does, the file it leaves and its result
FetchRuns(file, code, start, end, outcomes, t) ==
    LET cached_df == LoadCacheFile(file)
        fetch_start == IF cached_df # None
                       THEN NextFetchStart(cached_df.rows, start)
                       ELSE start
    IN IF cached_df.kind = "raise"
       THEN \* _load_cache is called outside the try block
            {Run(<<>>, NotCalled, file, cached_df)}
       ELSE IF cached_df # None /\ fetch_start > end
       THEN \* cache is up to date: touch and serve
            {Run(<<>>, NotCalled, Touch(file, t),
                 FetchResult(Filter(cached_df.rows, start, end), FALSE, t))}
       ELSE UNION {
            IF outcome.kind = "raise"
            THEN {Run(<<Call(code, fetch_start, end)>>, outcome, file,
                      IF outcome.exc \in CaughtExceptions /\ cached_df # None
                      THEN FallbackResult(cached_df, start, end, file.mtime)
                      ELSE Raised(outcome.exc))}
            ELSE {Run(<<Call(code, fetch_start, end)>>, outcome,
                      SaveCache(merged, t),
                      FetchResult(Filter(merged, start, end), FALSE, t)) :
                    merged \in Merge(cached_df, outcome.rows)}
            : outcome \in Provider(outcomes, fetch_start, end)}

\* CachedSource.fetch as an operation
Fetch(code, start, end, outcomes) ==
    LET cache_path == CachePath(code)
    IN /\ pc = "idle"
       /\ pc' = "done"
       /\ op' = [name |-> "fetch", code |-> code, start |-> start, end |-> end]
       /\ pre' = files[cache_path]
       /\ now' = now
       /\ \E run \in FetchRuns(files[cache_path], code, start, end, outcomes, now) :
             /\ response' = run.response
             /\ calls' = run.calls
             /\ files' = [files EXCEPT ![cache_path] = run.file]
             /\ result' = run.result
       /\ UNCHANGED <<memo, refreshed>>

\* What CachedSource.load_cache returns or raises on the cache file `file`
LoadCacheResult(file, start, end) ==
    LET cached_df == LoadCacheFile(file)
    IN IF cached_df = None THEN None
       ELSE IF cached_df.kind = "raise" THEN cached_df
       ELSE IF Filter(cached_df.rows, start, end) = <<>> THEN None
       ELSE FetchResult(Filter(cached_df.rows, start, end), FALSE, file.mtime)

\* CachedSource.load_cache as an operation
LoadCache(code, start, end) ==
    LET cache_path == CachePath(code)
    IN /\ pc = "idle"
       /\ pc' = "done"
       /\ op' = [name |-> "load_cache", code |-> code, start |-> start, end |-> end]
       /\ pre' = files[cache_path]
       /\ calls' = <<>>
       /\ response' = NotCalled
       /\ result' = LoadCacheResult(files[cache_path], start, end)
       /\ UNCHANGED <<files, now, memo, refreshed>>

\* CachedSource.needs_refresh
NeedsRefresh(code) ==
    LET cache_path == CachePath(code)
    IN /\ pc = "idle"
       /\ pc' = "done"
       /\ op' = [name |-> "needs_refresh", code |-> code]
       /\ pre' = files[cache_path]
       /\ calls' = <<>>
       /\ response' = NotCalled
       /\ result' = [kind |-> "bool", value |-> NeedsRefreshAt(files[cache_path], now)]
       /\ UNCHANGED <<files, now, memo, refreshed>>

\* CachedSource._cache_path on its own
CachePathOp(code) ==
    /\ op' = [name |-> "_cache_path", code |-> code]
    /\ result' = [kind |-> "Path", path |-> CachePath(code)]
    /\ UNCHANGED <<files, now, calls, response, pre, pc, memo, refreshed>>

\* The caller has taken the result of the last operation
Return ==
    /\ pc = "done"
    /\ pc' = "idle"
    /\ op' = [name |-> "none"]
    /\ calls' = <<>>
    /\ response' = NotCalled
    /\ result' = None
    /\ pre' = NoFile
    /\ UNCHANGED <<files, now, memo, refreshed>>

\* An hour passes
Tick(limit) ==
    /\ pc = "idle"
    /\ now < limit
    /\ now' = now + 1
    /\ UNCHANGED <<files, op, calls, response, result, pre, pc, memo, refreshed>>

\* A fetch of another session (Streamlit runs every session in a thread of
\* its own, on the same data directory) has merged the provider's rows and
\* entered _save_cache: to_csv has opened the file
SaveOpen(code, start, end, outcomes) ==
    LET cache_path == CachePath(code)
        cached_df == LoadCacheFile(files[cache_path])
        fetch_start == IF cached_df # None
                       THEN NextFetchStart(cached_df.rows, start)
                       ELSE start
    IN /\ pc = "idle"
       /\ cached_df.kind # "raise"
       /\ ~(cached_df # None /\ fetch_start > end)
       /\ \E outcome \in Provider(outcomes, fetch_start, end) :
             /\ outcome.kind = "return"
             /\ \E merged \in Merge(cached_df, outcome.rows) :
                   files' = [files EXCEPT ![cache_path] = Saving(@, merged, now)]
       /\ UNCHANGED <<now, op, calls, response, result, pre, pc, memo, refreshed>>

\* to_csv of that session has written the rows and closed the file
SaveClose(code) ==
    LET cache_path == CachePath(code)
    IN /\ pc = "idle"
       /\ files[cache_path].kind = "Saving"
       /\ files' = [files EXCEPT ![cache_path] = SaveCache(@.new, now)]
       /\ UNCHANGED <<now, op, calls, response, result, pre, pc, memo, refreshed>>

----------------------------------------------------------------------------
(* The display path of app.py *)

\* ttl=10800 seconds of st.cache_data on _background_refresh, in hours
CACHE_DATA_TTL == 3

\* item.category.value of the watched items
Category(code) == "jp_fund"

\* The exceptions the except clauses of app.py catch: the four classes and
\* pandas' EmptyDataError, a subclass of ValueError
AppCaught(exc) == exc \in CaughtExceptions \cup {"EmptyDataError"}

\* st.cache_data keys an entry by the arguments of the call
MemoKey(code, category, start, end) ==
    [code |-> code, category |-> category, start |-> start, end |-> end]

MemoEntry(key, value, stored) == [key |-> key, value |-> value, stored |-> stored]

\* an entry is served until its ttl has passed
MemoLive(key, t) ==
    \E e \in memo : e.key = key /\ t - e.stored < CACHE_DATA_TTL

MemoStore(key, value, t) ==
    {e \in memo : e.key # key} \cup {MemoEntry(key, value, t)}

\* What _load_and_display returns: (history, last_modified, is_fallback)
Displayed(history, last_modified, is_fallback) ==
    [kind |-> "display", history |-> history, last_modified |-> last_modified,
     is_fallback |-> is_fallback]

NoDisplay == [kind |-> "display", history |-> None, last_modified |-> None,
              is_fallback |-> FALSE]

\* PriceHistory(df).df: the frame sorted by date
PriceHistory(df) == SortValues(df)

DisplayOp(code, period_years, start, end, refresh) ==
    [name |-> "_load_and_display", code |-> code, period_years |-> period_years,
     start |-> start, end |-> end, refresh |-> refresh]

\* _load_and_display(item, analysis), with the call of _background_refresh
\* it makes when the cache is stale
LoadAndDisplay(code, period_years, outcomes) ==
    LET cache_path == CachePath(code)
        file == files[cache_path]
        end == DateOf(now)
        start == end - 365 * period_years
        cached == LoadCacheResult(file, start, end)
        key == MemoKey(code, Category(code), start, end)
    IN /\ pc = "idle"
       /\ pc' = "done"
       /\ pre' = file
       /\ now' = now
       /\ IF cached.kind = "raise"
          THEN \* load_cache is called outside any try block
               /\ op' = DisplayOp(code, period_years, start, end, "not requested")
               /\ result' = cached
               /\ calls' = <<>>
               /\ response' = NotCalled
               /\ UNCHANGED <<files, memo, refreshed>>
          ELSE IF cached # None
          THEN IF ~NeedsRefreshAt(file, now)
               THEN /\ op' = DisplayOp(code, period_years, start, end, "not requested")
                    /\ \E h \in PriceHistory(cached.df) :
                          result' = Displayed(h, cached.last_modified, cached.is_fallback)
                    /\ calls' = <<>>
                    /\ response' = NotCalled
                    /\ UNCHANGED <<files, memo, refreshed>>
               ELSE IF MemoLive(key, now)
               THEN \* st.cache_data serves the stored value
                    /\ op' = DisplayOp(code, period_years, start, end, "memoized")
                    /\ \E h \in PriceHistory(cached.df) :
                          result' = Displayed(h, cached.last_modified, cached.is_fallback)
                    /\ calls' = <<>>
                    /\ response' = NotCalled
                    /\ UNCHANGED <<files, memo, refreshed>>
               ELSE \* the body of _background_refresh runs, in this call
                    /\ op' = DisplayOp(code, period_years, start, end, "ran")
                    /\ refreshed' = {r \in refreshed : r.code # code}
                                        \cup {[code |-> code, at |-> now]}
                    /\ \E run \in FetchRuns(file, code, start, end, outcomes, now) :
                          /\ calls' = run.calls
                          /\ response' = run.response
                          /\ files' = [files EXCEPT ![cache_path] = run.file]
                          /\ IF run.result.kind = "raise" /\ ~AppCaught(run.result.exc)
                             THEN /\ result' = run.result
                                  /\ memo' = memo
                             ELSE /\ memo' = MemoStore(key, run.result.kind # "raise", now)
                                  /\ \E h \in PriceHistory(cached.df) :
                                        result' = Displayed(h, cached.last_modified,
                                                            cached.is_fallback)
          ELSE \* no cache: fetch in the foreground
               /\ op' = DisplayOp(code, period_years, start, end, "not requested")
               /\ UNCHANGED <<memo, refreshed>>
               /\ \E run \in FetchRuns(file, code, start, end, outcomes, now) :
                     /\ calls' = run.calls
                     /\ response' = run.response
                     /\ files' = [files EXCEPT ![cache_path] = run.file]
                     /\ IF run.result.kind = "raise"
                        THEN result' = IF AppCaught(run.result.exc) THEN NoDisplay
                                       ELSE run.result
                        ELSE IF run.result.df = <<>>
                        THEN \* PriceHistory raises ValueError, which is caught
                             result' = NoDisplay
                        ELSE \E h \in PriceHistory(run.result.df) :
                                result' = Displayed(h, run.result.last_modified,
                                                    run.result.is_fallback)

----------------------------------------------------------------------------
(* logic.py: drawdown events.  A ratio is a fraction [num, den] with
   den > 0, compared by cross-multiplication; NaN is 0/0.  An optional
   value is <<>> (None) or <<v>>. *)

Ratio(num, den) == [num |-> num, den |-> den]
NaN == Ratio(0, 0)
IsNaN(x) == x.den = 0 /\ x.num = 0

\* a < b; a comparison with NaN is false
Less(a, b) ==
    /\ ~IsNaN(a)
    /\ ~IsNaN(b)
    /\ IF a.den = 0 /\ b.den = 0 THEN a.num < b.num
       ELSE a.num * b.den < b.num * a.den

\* closes.cummax()
CumMax(closes) ==
    LET F[i \in 1..Len(closes)] ==
            IF i = 1 THEN closes[1] ELSE Max2(F[i - 1], closes[i])
    IN [i \in 1..Len(closes) |-> F[i]]

\* calc_drawdown: (closes - rolling_max) / rolling_max.replace(0, nan)
CalcDrawdown(closes) ==
    LET rolling_max == CumMax(closes)
    IN [i \in 1..Len(closes) |->
           IF rolling_max[i] = 0 THEN NaN
           ELSE IF rolling_max[i] < 0
           THEN \* the same quotient, written with a positive denominator
                Ratio(rolling_max[i] - closes[i], -rolling_max[i])
           ELSE Ratio(closes[i] - rolling_max[i], rolling_max[i])]

\* a detector that also opens an event at exactly the threshold
IsBelow_Inclusive(dd_val, threshold) == ~Less(threshold, dd_val)

\* dd_val < threshold
IsBelow(dd_val, threshold) == Less(dd_val, threshold)

\* a detector that closes the event at the first value not below the threshold
Recovered_Any(dd_val) == TRUE

\* a detector that closes an event only above the previous high
Recovered_Strict(dd_val) == dd_val.num > 0

\* dd_val >= 0
Recovered(dd_val) == dd_val.num >= 0

\* a detector that moves the trough to the latest position of the low
IsDeeper_OrEqual(dd_val, trough_dd) == ~Less(trough_dd, dd_val)

\* dd_val < trough_dd
IsDeeper(dd_val, trough_dd) == Less(dd_val, trough_dd)

\* a scan that takes the earliest position whose close is the rolling
\* maximum at i
PeakIdx_Earliest(closes, i) ==
    LET peak_val == CumMax(closes)[i]
        found == {j \in 1..(i - 1) : closes[j] = peak_val}
    IN IF found = {} THEN i
       ELSE CHOOSE j \in found : \A k \in found : j <= k

\* the nearest earlier position whose close is the rolling maximum at i
PeakIdx(closes, i) ==
    LET peak_val == CumMax(closes)[i]
        found == {j \in 1..(i - 1) : closes[j] = peak_val}
    IN IF found = {} THEN i
       ELSE CHOOSE j \in found : \A k \in found : k <= j

\* a count of the days from trough to recovery that includes both ends
RecoveryDays_BothEnds(trough_date, recovery_date) == recovery_date - trough_date + 1

\* (Timestamp(recovery) - Timestamp(trough)).days
RecoveryDays(trough_date, recovery_date) == recovery_date - trough_date

DrawdownEvent(peak_date, trough_date, max_drawdown, recovery_date, recovery_days) ==
    [peak_date |-> peak_date, trough_date |-> trough_date,
     max_drawdown |-> max_drawdown, recovery_date |-> recovery_date,
     recovery_days |-> recovery_days]

\* find_drawdown_events; positions count from 1
FindDrawdownEvents(dates, closes, threshold) ==
    LET dd_values == CalcDrawdown(closes)
        Loop[i \in 0..Len(closes)] ==
            IF i = 0
            THEN [events |-> <<>>, in_drawdown |-> FALSE, peak_idx |-> 0,
                  trough_idx |-> 0, trough_dd |-> Ratio(0, 1)]
            ELSE LET s == Loop[i - 1]
                     dd_val == dd_values[i]
                 IN IF IsNaN(dd_val) THEN s
                    ELSE IF IsBelow(dd_val, threshold)
                    THEN IF ~s.in_drawdown
                         THEN [s EXCEPT !.in_drawdown = TRUE,
                                        !.peak_idx = PeakIdx(closes, i),
                                        !.trough_idx = i,
                                        !.trough_dd = dd_val]
                         ELSE IF IsDeeper(dd_val, s.trough_dd)
                         THEN [s EXCEPT !.trough_idx = i, !.trough_dd = dd_val]
                         ELSE s
                    ELSE IF s.in_drawdown /\ Recovered(dd_val)
                    THEN [s EXCEPT
                            !.events = Append(@,
                                DrawdownEvent(dates[s.peak_idx], dates[s.trough_idx],
                                    s.trough_dd, <<dates[i]>>,
                                    <<RecoveryDays(dates[s.trough_idx], dates[i])>>)),
                            !.in_drawdown = FALSE]
                    ELSE s
        last == Loop[Len(closes)]
    IN IF last.in_drawdown
       THEN Append(last.events,
                DrawdownEvent(dates[last.peak_idx], dates[last.trough_idx],
                              last.trough_dd, <<>>, <<>>))
       ELSE last.events

\* find_drawdown_events as an operation on one more day of prices
FindDrawdownEventsOp(dates, closes, threshold) ==
    /\ op' = [name |-> "find_drawdown_events", dates |-> dates,
              closes |-> closes, threshold |-> threshold]
    /\ result' = [kind |-> "events",
                  events |-> FindDrawdownEvents(dates, closes, threshold)]
    /\ UNCHANGED <<files, now, calls, response, pre, pc, memo, refreshed>>

----------------------------------------------------------------------------
(* logic.py: indicators.  A float is a fraction in lowest terms; x / 0 is
   Ratio(1, 0) or Ratio(-1, 0) (inf and -inf) and 0 / 0 is NaN. *)

Abs(n) == IF n < 0 THEN -n ELSE n

RECURSIVE GCD(_, _)
GCD(a, b) == IF b = 0 THEN a ELSE GCD(b, a % b)

\* num / den in lowest terms, the sign carried by the numerator
Reduce(num, den) ==
    IF den = 0 THEN Ratio(IF num > 0 THEN 1 ELSE IF num < 0 THEN -1 ELSE 0, 0)
    ELSE LET g == GCD(Abs(num), Abs(den))
             sign == IF (num < 0) # (den < 0) THEN -1 ELSE 1
         IN Ratio(sign * (Abs(num) \div g), Abs(den) \div g)

Num(n) == Ratio(n, 1)

Add(a, b) ==
    IF a.den = 0 /\ b.den = 0 THEN (IF a.num = b.num THEN a ELSE NaN)
    ELSE IF a.den = 0 THEN a
    ELSE IF b.den = 0 THEN b
    ELSE LET g == GCD(a.den, b.den)
         IN Reduce(a.num * (b.den \div g) + b.num * (a.den \div g),
                   a.den * (b.den \div g))

Neg(a) == Ratio(-a.num, a.den)
Sub(a, b) == Add(a, Neg(b))
Mul(a, b) == Reduce(a.num * b.num, a.den * b.den)
Div(a, b) == Reduce(a.num * b.den, a.den * b.num)
AbsR(a) == Ratio(Abs(a.num), a.den)

\* a >= b; a comparison with NaN is false
GreaterEq(a, b) == ~IsNaN(a) /\ ~IsNaN(b) /\ ~Less(a, b)

\* the whole part of the square root of n < 2^31
RECURSIVE IsqrtIn(_, _, _)
IsqrtIn(n, lo, hi) ==
    IF hi - lo <= 1 THEN lo
    ELSE LET mid == (lo + hi) \div 2
         IN IF mid * mid <= n THEN IsqrtIn(n, mid, hi) ELSE IsqrtIn(n, lo, mid)

\* the square root of a fraction x >= 0, to two decimal places of
\* x.den * sqrt(x) (sqrt(n / d) = sqrt(n * d) / d)
Sqrt(x) == Reduce(IsqrtIn(x.num * x.den * 10000, 0, 46341), x.den * 100)

\* closes[from] + ... + closes[to]
Sum(closes, from, to) ==
    LET F[i \in (from - 1)..to] == IF i < from THEN 0 ELSE F[i - 1] + closes[i]
    IN F[to]

\* closes.pct_change() at one position: cur / prev - 1
PctChange(prev, cur) == Sub(Reduce(cur, prev), Num(1))

\* calc_daily_returns: closes.pct_change().dropna()
CalcDailyReturns(closes) ==
    LET pct == [i \in 1..(Len(closes) - 1) |-> PctChange(closes[i], closes[i + 1])]
    IN SelectSeq(pct, LAMBDA x : ~IsNaN(x))

\* calc_return_percentile
CalcReturnPercentile(returns, current_return) ==
    LET values == SelectSeq(returns, LAMBDA x : ~IsNaN(x))
        count_below == Cardinality({i \in 1..Len(values) :
                                       GreaterEq(current_return, values[i])})
    IN IF Len(values) = 0 THEN Num(50)
       ELSE Reduce(count_below * 100, Len(values))

\* closes.rolling(window, min_periods=window).mean() at position i
RollingMean(closes, window, i) ==
    IF i < window THEN NaN ELSE Reduce(Sum(closes, i - window + 1, i), window)

\* calc_ma_deviation: (closes - ma) / ma
CalcMaDeviation(closes, window) ==
    [i \in 1..Len(closes) |->
        LET ma == RollingMean(closes, window, i)
        IN IF IsNaN(ma) THEN NaN ELSE Div(Sub(Num(closes[i]), ma), ma)]

\* xs.ewm(alpha=1/period, adjust=False).mean() over the observations xs,
\* before min_periods is applied
EwmMean(xs, period) ==
    LET F[j \in 1..Len(xs)] ==
            IF j = 1 THEN Num(xs[1])
            ELSE Add(Mul(Ratio(period - 1, period), F[j - 1]),
                     Mul(Ratio(1, period), Num(xs[j])))
    IN [j \in 1..Len(xs) |-> F[j]]

\* calc_rsi (Wilder): position 1 has no delta; min_periods=period leaves the
\* average undefined until period deltas have been seen
CalcRsi(closes, period) ==
    LET delta == [j \in 1..(Len(closes) - 1) |-> closes[j + 1] - closes[j]]
        gain == [j \in 1..Len(delta) |-> Max2(delta[j], 0)]
        loss == [j \in 1..Len(delta) |-> Max2(-delta[j], 0)]
        avg_gain == EwmMean(gain, period)
        avg_loss == EwmMean(loss, period)
    IN [i \in 1..Len(closes) |->
           IF i - 1 < period THEN NaN
           ELSE LET rs == Div(avg_gain[i - 1], avg_loss[i - 1])
                IN Sub(Num(100), Div(Num(100), Add(Num(1), rs)))]

\* closes.rolling(period, min_periods=period).std() at position i (ddof = 1)
RollingStd(closes, period, i) ==
    IF i < period \/ period < 2 THEN NaN
    ELSE LET total == Sum(closes, i - period + 1, i)
             squares == [j \in 1..period |->
                            (period * closes[i - period + j] - total)
                                * (period * closes[i - period + j] - total)]
         IN Sqrt(Reduce(Sum(squares, 1, period), period * period * (period - 1)))

\* calc_bollinger_bands(...).percent_b
CalcPercentB(closes, period, num_std) ==
    [i \in 1..Len(closes) |->
        LET middle == RollingMean(closes, period, i)
            std == RollingStd(closes, period, i)
        IN IF IsNaN(middle) \/ IsNaN(std) THEN NaN
           ELSE LET upper == Add(middle, Mul(Num(num_std), std))
                    lower == Sub(middle, Mul(Num(num_std), std))
                    band_width == Sub(upper, lower)
                IN IF band_width.num = 0 THEN NaN
                   ELSE Div(Sub(Num(closes[i]), lower), band_width)]

----------------------------------------------------------------------------
(* logic.py: scoring *)

DD_MAX == Ratio(3, 10)
RARITY_UPPER == Num(50)
RSI_UPPER == Num(70)
RSI_LOWER == Num(20)
MA_DEV_MAX == Ratio(1, 10)
BB_UPPER == Num(1)
BB_LOWER == Ratio(-1, 2)

\* np.clip without its upper bound
Clip_NoCeiling(raw) ==
    IF IsNaN(raw) THEN NaN
    ELSE IF GreaterEq(Num(0), raw) THEN Num(0)
    ELSE IF raw.den = 0 THEN raw
    ELSE Reduce((raw.num \div raw.den) * 1000
                    + ((raw.num % raw.den) * 1000) \div raw.den, 1000)

\* float(np.clip(raw, 0, 100)); a score is kept to a thousandth of a point
Clip(raw) ==
    IF IsNaN(raw) THEN NaN
    ELSE IF GreaterEq(Num(0), raw) THEN Num(0)
    ELSE IF GreaterEq(raw, Num(100)) THEN Num(100)
    ELSE Reduce((raw.num \div raw.den) * 1000
                    + ((raw.num % raw.den) * 1000) \div raw.den, 1000)

\* _score_drawdown
ScoreDrawdown(dd) ==
    LET depth == AbsR(dd)
    IN Clip(Mul(Div(depth, DD_MAX), Num(100)))

\* _score_rarity(percentile)
ScoreRarity(percentile) ==
    IF GreaterEq(percentile, RARITY_UPPER) THEN Num(0)
    ELSE Clip(Mul(Div(Sub(RARITY_UPPER, percentile), RARITY_UPPER), Num(100)))

\* _score_rsi
ScoreRsi(rsi) ==
    IF GreaterEq(rsi, RSI_UPPER) THEN Num(0)
    ELSE Clip(Mul(Div(Sub(RSI_UPPER, rsi), Sub(RSI_UPPER, RSI_LOWER)), Num(100)))

\* _score_ma_deviation
ScoreMaDeviation(deviation) ==
    IF GreaterEq(deviation, Num(0)) THEN Num(0)
    ELSE LET depth == AbsR(deviation)
         IN Clip(Mul(Div(depth, MA_DEV_MAX), Num(100)))

\* a %B score that is full at the lower band already (%B = 0)
ScoreBollinger_UnitBand(percent_b) ==
    IF GreaterEq(percent_b, BB_UPPER) THEN Num(0)
    ELSE Clip(Mul(Div(Sub(BB_UPPER, percent_b), BB_UPPER), Num(100)))

\* _score_bollinger
ScoreBollinger(percent_b) ==
    IF GreaterEq(percent_b, BB_UPPER) THEN Num(0)
    ELSE Clip(Mul(Div(Sub(BB_UPPER, percent_b), Sub(BB_UPPER, BB_LOWER)), Num(100)))

IndicatorScores(drawdown, rarity, rsi, ma_deviation, bollinger) ==
    [drawdown |-> drawdown, rarity |-> rarity, rsi |-> rsi,
     ma_deviation |-> ma_deviation, bollinger |-> bollinger]

WEIGHTS ==
    IndicatorScores(Ratio(30, 100), Ratio(25, 100), Ratio(20, 100),
                    Ratio(15, 100), Ratio(10, 100))

\* _total_score
TotalScore(scores) ==
    LET raw == Add(Mul(scores.drawdown, WEIGHTS.drawdown),
               Add(Mul(scores.rarity, WEIGHTS.rarity),
               Add(Mul(scores.rsi, WEIGHTS.rsi),
               Add(Mul(scores.ma_deviation, WEIGHTS.ma_deviation),
                   Mul(scores.bollinger, WEIGHTS.bollinger)))))
    IN Clip(raw)

\* _label_from_score
LabelFromScore(score) ==
    IF GreaterEq(score, Num(80)) THEN "strong buy"
    ELSE IF GreaterEq(score, Num(60)) THEN "consider buying"
    ELSE IF GreaterEq(score, Num(40)) THEN "wait and see"
    ELSE "stand by"

Score(value) == [kind |-> "score", value |-> value]

\* a call _score_rarity(percentile) or _score_rarity(percentile, window=w):
\* the function has the one parameter percentile, so Python refuses the
\* keyword with a TypeError before the body runs
ScoreRarityCall(percentile, window) ==
    IF window # <<>> THEN Raised("TypeError")
    ELSE Score(ScoreRarity(percentile))

\* a scoring function is called and returns (or raises)
ScoreCall(name, args, outcome) ==
    /\ pc = "idle"
    /\ pc' = "done"
    /\ op' = [name |-> name, args |-> args]
    /\ result' = outcome
    /\ UNCHANGED <<files, now, calls, response, pre, memo, refreshed>>

----------------------------------------------------------------------------
(* logic.py: analyze *)

AnalysisConfig(ma_days, rsi_period, bb_period, bb_std) ==
    [ma_days |-> ma_days, rsi_period |-> rsi_period, bb_period |-> bb_period,
     bb_std |-> bb_std]

AnalysisResult(scores, total_score, label, current_drawdown, current_daily_return, current_rsi, current_ma_deviation, current_bb_percent_b, return_percentile, drawdown_events) ==
    [kind |-> "AnalysisResult", scores |-> scores, total_score |-> total_score,
     label |-> label, current_drawdown |-> current_drawdown,
     current_daily_return |-> current_daily_return, current_rsi |-> current_rsi,
     current_ma_deviation |-> current_ma_deviation,
     current_bb_percent_b |-> current_bb_percent_b,
     return_percentile |-> return_percentile, drawdown_events |-> drawdown_events]

\* series.iloc[-1]
Last(series) == series[Len(series)]

\* analyze(history, config) on the sorted, non-empty frame of a PriceHistory
Analyze(dates, closes, config) ==
    LET dd_series == CalcDrawdown(closes)
        current_dd == IF ~IsNaN(Last(dd_series)) THEN Last(dd_series) ELSE Num(0)
        daily_ret == CalcDailyReturns(closes)
        current_ret == IF Len(daily_ret) > 0 THEN Last(daily_ret) ELSE Num(0)
        percentile == IF Len(daily_ret) > 0
                      THEN CalcReturnPercentile(daily_ret, current_ret)
                      ELSE Num(50)
        ma_dev_series == CalcMaDeviation(closes, config.ma_days)
        current_ma_dev == IF ~IsNaN(Last(ma_dev_series)) THEN Last(ma_dev_series)
                          ELSE Num(0)
        rsi_series == CalcRsi(closes, config.rsi_period)
        current_rsi == IF ~IsNaN(Last(rsi_series)) THEN Last(rsi_series) ELSE Num(50)
        percent_b == CalcPercentB(closes, config.bb_period, config.bb_std)
        current_bb == IF ~IsNaN(Last(percent_b)) THEN Last(percent_b) ELSE Ratio(1, 2)
        dd_events == FindDrawdownEvents(dates, closes, Ratio(-5, 100))
        scores == IndicatorScores(ScoreDrawdown(current_dd), ScoreRarity(percentile),
                                  ScoreRsi(current_rsi),
                                  ScoreMaDeviation(current_ma_dev),
                                  ScoreBollinger(current_bb))
        total == TotalScore(scores)
    IN AnalysisResult(scores, total, LabelFromScore(total), current_dd, current_ret,
                      current_rsi, current_ma_dev, current_bb, percentile, dd_events)

\* analyze as an operation on the history with one more day of prices
AnalyzeOp(dates, closes, config) ==
    /\ op' = [name |-> "analyze", dates |-> dates, closes |-> closes,
              config |-> config]
    /\ result' = Analyze(dates, closes, config)
    /\ UNCHANGED <<files, now, calls, response, pre, pc, memo, refreshed>>

----------------------------------------------------------------------------
(* Specifications *)

Codes == {<<"^", "A">>}

Ranges(dates) == {<<s, e>> \in dates \X dates : s <= e}

\* Tuesday 2024-02-13 09:00, a business day
SpecStart == 43 * 24 + 9
\* Sunday 2024-02-11 22:00; Monday the 12th is a substitute holiday
ClockStart == 41 * 24 + 22

InitAt(t) ==
    /\ files = [p \in {CachePath(c) : c \in Codes} |-> NoFile]
    /\ now = t
    /\ op = [name |-> "none"]
    /\ calls = <<>>
    /\ response = NotCalled
    /\ result = None
    /\ pre = NoFile
    /\ pc = "idle"
    /\ memo = {}
    /\ refreshed = {}

Init == InitAt(SpecStart)

InitClock == InitAt(ClockStart)

\* SpecPath starts from the path of the empty code and grows the code by one
\* character at a time
InitPath ==
    /\ files = [p \in {CachePath(c) : c \in Codes} |-> NoFile]
    /\ now = SpecStart
    /\ op = [name |-> "_cache_path", code |-> <<>>]
    /\ calls = <<>>
    /\ response = NotCalled
    /\ result = [kind |-> "Path", path |-> CachePath(<<>>)]
    /\ pre = NoFile
    /\ pc = "idle"
    /\ memo = {}
    /\ refreshed = {}

DoFetch ==
    \E code \in Codes, r \in Ranges(Dates) :
        Fetch(code, r[1], r[2], ProviderOutcomes(Row, MaxRows))

DoLoadCache ==
    \E code \in Codes, r \in Ranges(Dates) : LoadCache(code, r[1], r[2])

DoFetchWide ==
    \E code \in Codes, r \in Ranges(WideDates) :
        Fetch(code, r[1], r[2], ProviderOutcomes(WideRow, MaxRows + 1))

DoLoadCacheWide ==
    \E code \in Codes, r \in Ranges(WideDates) : LoadCache(code, r[1], r[2])

DoNeedsRefresh == \E code \in Codes : NeedsRefresh(code)

DoTick == Tick(SpecStart + MaxNow)

\* In SpecClock every request is for day 1 and the provider has one row for it
ClockOutcomes ==
    {Returned(<<[date |-> 1, close |-> 1]>>), Raised("ConnectionError")}

DoFetchClock == \E code \in Codes : Fetch(code, 1, 1, ClockOutcomes)

DoTickClock == Tick(ClockStart + MaxClock)

DoCachePath ==
    \E c \in Alphabet :
        /\ Len(op.code) < MaxCodeLen
        /\ CachePathOp(Append(op.code, c))

Next == DoFetch \/ DoLoadCache \/ DoNeedsRefresh \/ DoTick \/ Return

NextWide == DoFetchWide \/ DoLoadCacheWide \/ DoNeedsRefresh \/ DoTick \/ Return

NextClock == DoFetchClock \/ DoNeedsRefresh \/ DoTickClock \/ Return

NextPath == DoCachePath

Spec == Init /\ [][Next]_vars

SpecWide == Init /\ [][NextWide]_vars

SpecClock == InitClock /\ [][NextClock]_vars

SpecPath == InitPath /\ [][NextPath]_vars

----------------------------------------------------------------------------
(* SpecPair: three codes that WatchlistItem accepts, two of which differ only
   in a character that _cache_path replaces *)

PairCodes == {<<"^", "A">>, <<"_", "A">>, <<"A">>}

InitPair ==
    /\ files = [p \in {CachePath(c) : c \in PairCodes} |-> NoFile]
    /\ now = SpecStart
    /\ op = [name |-> "none"]
    /\ calls = <<>>
    /\ response = NotCalled
    /\ result = None
    /\ pre = NoFile
    /\ pc = "idle"
    /\ memo = {}
    /\ refreshed = {}

DoFetchPair == \E code \in PairCodes : Fetch(code, 1, 1, ClockOutcomes)

DoLoadCachePair == \E code \in PairCodes : LoadCache(code, 1, 1)

DoNeedsRefreshPair == \E code \in PairCodes : NeedsRefresh(code)

NextPair ==
    DoFetchPair \/ DoLoadCachePair \/ DoNeedsRefreshPair \/ DoTick \/ Return

SpecPair == InitPair /\ [][NextPair]_vars

----------------------------------------------------------------------------
(* SpecSave: the operations of Spec while other sessions save the same code *)

DoSaveOpen ==
    \E code \in Codes, r \in Ranges(Dates) :
        SaveOpen(code, r[1], r[2], ProviderOutcomes(Row, MaxRows))

DoSaveClose == \E code \in Codes : SaveClose(code)

NextSave ==
    \/ DoFetch
    \/ DoLoadCache
    \/ DoNeedsRefresh
    \/ DoSaveOpen
    \/ DoSaveClose
    \/ DoTick
    \/ Return

SpecSave == Init /\ [][NextSave]_vars

----------------------------------------------------------------------------
(* SpecDisplay: the display path from Tuesday 09:00 on, for analysis periods
   of 1..MaxPeriod years; the provider has yesterday's or today's price *)

Periods == 1..MaxPeriod

DisplayOutcomes(t) ==
    {Returned(<<[date |-> DateOf(t) - 1, close |-> 1]>>),
     Returned(<<[date |-> DateOf(t), close |-> 1]>>),
     Raised("ConnectionError"),
     Raised("PlaywrightError")}

DoLoadAndDisplay ==
    \E code \in Codes, period_years \in Periods :
        LoadAndDisplay(code, period_years, DisplayOutcomes(now))

DoTickDisplay == Tick(SpecStart + MaxDisplayHours)

NextDisplay == DoLoadAndDisplay \/ DoTickDisplay \/ Return

SpecDisplay == Init /\ [][NextDisplay]_vars

----------------------------------------------------------------------------
(* SpecEvents: find_drawdown_events on every series of up to MaxLen closes
   in -1..MaxPrice, dated on consecutive days or across a weekend, for the
   default threshold of -5% and for -50%; the series grows by one day *)

Prices == (-1)..MaxPrice
Gaps == {1, 3}
Thresholds == {Ratio(-5, 100), Ratio(-50, 100)}

InitEvents ==
    /\ files = [p \in {CachePath(c) : c \in Codes} |-> NoFile]
    /\ now = SpecStart
    /\ \E threshold \in Thresholds :
          op = [name |-> "find_drawdown_events", dates |-> <<>>,
                closes |-> <<>>, threshold |-> threshold]
    /\ calls = <<>>
    /\ response = NotCalled
    /\ result = [kind |-> "events", events |-> <<>>]
    /\ pre = NoFile
    /\ pc = "idle"
    /\ memo = {}
    /\ refreshed = {}

DoFindDrawdownEvents ==
    \E gap \in Gaps, close \in Prices :
        /\ Len(op.closes) < MaxLen
        /\ FindDrawdownEventsOp(
              Append(op.dates, IF op.dates = <<>> THEN 1
                               ELSE op.dates[Len(op.dates)] + gap),
              Append(op.closes, close),
              op.threshold)

NextEvents == DoFindDrawdownEvents

SpecEvents == InitEvents /\ [][NextEvents]_vars

(* SpecAnalyze: analyze on every history of up to MaxDays daily closes in
   0..MaxQuote, for the shortest windows an AnalysisConfig accepts and the
   default band of two standard deviations; the history grows by one day.
   An empty frame is refused by the constructor of PriceHistory. *)

Quotes == 0..MaxQuote
Configs == {AnalysisConfig(MIN_WINDOW, MIN_WINDOW, MIN_WINDOW, 2)}

InitAnalyze ==
    /\ files = [p \in {CachePath(c) : c \in Codes} |-> NoFile]
    /\ now = SpecStart
    /\ \E config \in Configs :
          op = [name |-> "analyze", dates |-> <<>>, closes |-> <<>>,
                config |-> config]
    /\ calls = <<>>
    /\ response = NotCalled
    /\ result = Raised("ValueError")
    /\ pre = NoFile
    /\ pc = "idle"
    /\ memo = {}
    /\ refreshed = {}

DoAnalyze ==
    \E close \in Quotes :
        /\ Len(op.closes) < MaxDays
        /\ AnalyzeOp(Append(op.dates, Len(op.dates) + 1),
                     Append(op.closes, close), op.config)

NextAnalyze == DoAnalyze

SpecAnalyze == InitAnalyze /\ [][NextAnalyze]_vars

(* SpecScore: the scoring functions on grids of inputs: drawdowns and
   deviations in hundredths down to -MaxDepth/100, percentiles and RSI values
   in steps of 5 up to MaxPercent, %B in quarters from -1 to 2, and sub-scores
   in steps of 25 up to MaxScore *)

Depths == {Ratio(-k, 100) : k \in 0..MaxDepth}
Deviations == {Ratio(k, 100) : k \in (-MaxDepth)..2}
Percents == {Num(p) : p \in {q \in 0..MaxPercent : q % 5 = 0}}
Windows == {<<>>, <<1>>, <<3>>}
PercentBs == {Ratio(25 * j - 100, 100) : j \in 0..12}
ScoreGrid == {Num(s) : s \in {q \in 0..MaxScore : q % 25 = 0}}

DoScoreDrawdown ==
    \E dd \in Depths :
        ScoreCall("_score_drawdown", [dd |-> dd], Score(ScoreDrawdown(dd)))

DoScoreRarity ==
    \E percentile \in Percents, window \in Windows :
        ScoreCall("_score_rarity", [percentile |-> percentile, window |-> window],
                  ScoreRarityCall(percentile, window))

DoScoreRsi ==
    \E rsi \in Percents :
        ScoreCall("_score_rsi", [rsi |-> rsi], Score(ScoreRsi(rsi)))

DoScoreMaDeviation ==
    \E deviation \in Deviations :
        ScoreCall("_score_ma_deviation", [deviation |-> deviation],
                  Score(ScoreMaDeviation(deviation)))

DoScoreBollinger ==
    \E percent_b \in PercentBs :
        ScoreCall("_score_bollinger", [percent_b |-> percent_b],
                  Score(ScoreBollinger(percent_b)))

DoTotalScore ==
    \E d \in ScoreGrid, r \in ScoreGrid, s \in ScoreGrid, m \in ScoreGrid,
       b \in ScoreGrid :
        ScoreCall("_total_score", IndicatorScores(d, r, s, m, b),
                  Score(TotalScore(IndicatorScores(d, r, s, m, b))))

NextScore ==
    \/ DoScoreDrawdown
    \/ DoScoreRarity
    \/ DoScoreRsi
    \/ DoScoreMaDeviation
    \/ DoScoreBollinger
    \/ DoTotalScore
    \/ Return

SpecScore == Init /\ [][NextScore]_vars

(* SpecFixed: fetches for any range of WideDates from a provider that
   holds one row for every date of WideDates and never fails *)

FixedRows == [d \in WideDates |-> [date |-> d, close |-> 1]]
FixedOutcomes == {FixedData(FixedRows)}

DoFetchFixed ==
    \E code \in Codes, r \in Ranges(WideDates) :
        Fetch(code, r[1], r[2], FixedOutcomes)

NextFixed == DoFetchFixed \/ DoTick \/ Return

SpecFixed == Init /\ [][NextFixed]_vars

----------------------------------------------------------------------------
(* Properties *)

IsFetch == pc = "done" /\ op.name = "fetch"
HadCache == LoadCacheFile(pre).kind = "df"
ProviderCalled == calls # <<>>
ProviderFailed == response.kind = "raise"
IsResult == result.kind = "FetchResult"
CacheNow == files[CachePath(op.code)]
DatesOf(df) == {r.date : r \in Range(df)}

\* C1: when the cache covers the requested start (d1 <= start <= d2) and ends
\* before the requested end (d2 < end), fetch calls the provider exactly once,
\* for the range from the day after d2 to end.
C1_DeltaFetch ==
    (/\ IsFetch
     /\ HadCache
     /\ MinDate(pre.rows) <= op.start
     /\ op.start <= MaxDateOf(pre.rows)
     /\ MaxDateOf(pre.rows) < op.end)
    => calls = <<Call(op.code, MaxDateOf(pre.rows) + 1, op.end)>>

C1_Witness ==
    /\ IsFetch
    /\ HadCache
    /\ MinDate(pre.rows) <= op.start
    /\ op.start <= MaxDateOf(pre.rows)
    /\ MaxDateOf(pre.rows) < op.end
    /\ Len(calls) = 1
    /\ response.kind = "return"

\* C2: when the provider fails, fetch returns the cached series filtered to
\* the request with is_fallback = TRUE if a cache exists, and raises the
\* provider's error if none exists -- whatever the failure is.
C2_FailureOutcome ==
    (IsFetch /\ ProviderCalled /\ ProviderFailed)
    => IF HadCache
       THEN /\ IsResult
            /\ result.is_fallback
            /\ result.df = Filter(pre.rows, op.start, op.end)
       ELSE result = Raised(response.exc)

\* C3: a FetchResult carries is_fallback = TRUE exactly when it comes from a
\* fetch whose provider call failed while a cache existed; the results of
\* serving the cache, of merge-and-save and of load_cache carry FALSE.
C3_FallbackExact ==
    (pc = "done" /\ IsResult)
    => (result.is_fallback <=>
            (op.name = "fetch" /\ ProviderCalled /\ ProviderFailed /\ HadCache))

C3_Witness ==
    /\ IsFetch
    /\ IsResult
    /\ result.is_fallback
    /\ ProviderFailed
    /\ HadCache

\* C4: when a cache exists and next_fetch_start is after end, fetch returns
\* the cached rows filtered to the request, calls no provider, leaves the
\* cached rows as they were and sets the file's modification time to now.
C4_ServeCache ==
    (IsFetch /\ HadCache /\ NextFetchStart(pre.rows, op.start) > op.end)
    => /\ calls = <<>>
       /\ response = NotCalled
       /\ result = FetchResult(Filter(pre.rows, op.start, op.end), FALSE, now)
       /\ CacheNow.rows = pre.rows
       /\ CacheNow.mtime = now

C4_Witness ==
    /\ IsFetch
    /\ HadCache
    /\ NextFetchStart(pre.rows, op.start) > op.end
    /\ pre.mtime < now
    /\ Len(pre.rows) >= 2
    /\ result.df # pre.rows

\* C5: after a merge, every date that the cached series and the provider's
\* series both have carries a close value of the provider's series.
C5_IncomingWins ==
    (IsFetch /\ HadCache /\ ProviderCalled /\ response.kind = "return")
    => \A m \in Range(CacheNow.rows) :
          m.date \in DatesOf(pre.rows) \cap DatesOf(response.rows)
          => \E r \in Range(response.rows) : r.date = m.date /\ r.close = m.close

\* C6: every persisted series is sorted ascending by date and has each date
\* at most once.
C6_CacheWellFormed ==
    \A p \in DOMAIN files :
        Exists(files[p])
        => IsSortedByDate(files[p].rows) /\ HasUniqueDates(files[p].rows)

\* C7: next_fetch_start is the day after the cached maximum when the cached
\* minimum is at or before the requested start, and the requested start
\* otherwise (seen as the start of the provider call fetch makes).
C7_NextFetchStart ==
    (IsFetch /\ HadCache /\ ProviderCalled)
    => calls[1].start =
          IF MinDate(pre.rows) <= op.start
          THEN MaxDateOf(pre.rows) + 1
          ELSE op.start

IsNeedsRefresh == pc = "done" /\ op.name = "needs_refresh"
Today == DateOf(now)
NonBusinessDay(d) == Weekday(d) \in {5, 6} \/ IsJpHoliday(d)
ModifiedTodayAfterPublish ==
    DateOf(pre.mtime) = Today /\ HourOf(pre.mtime) >= PUBLISH_HOUR

\* C8: needs_refresh is TRUE when no cache file exists; with a cache file it
\* is FALSE on Saturdays, Sundays and holidays, FALSE before 10:00, and FALSE
\* when the file was last modified today at or after 10:00.
C8_StalenessGates ==
    IsNeedsRefresh
    => /\ ~Exists(pre) => result.value
       /\ (Exists(pre) /\ NonBusinessDay(Today)) => ~result.value
       /\ (Exists(pre) /\ HourOf(now) < PUBLISH_HOUR) => ~result.value
       /\ (Exists(pre) /\ ModifiedTodayAfterPublish) => ~result.value

\* the gate decides: without it the elapsed time alone would ask for a refresh
C8_Witness ==
    /\ IsNeedsRefresh
    /\ Exists(pre)
    /\ ~NonBusinessDay(Today)
    /\ HourOf(now) >= PUBLISH_HOUR
    /\ ModifiedTodayAfterPublish
    /\ now - pre.mtime >= MIN_REFRESH_INTERVAL
    /\ ~result.value

PastAllGates ==
    /\ IsNeedsRefresh
    /\ Exists(pre)
    /\ ~NonBusinessDay(Today)
    /\ HourOf(now) >= PUBLISH_HOUR
    /\ ~ModifiedTodayAfterPublish

\* C9 as claimed: past the gates, needs_refresh is TRUE exactly when more
\* than 3 hours have passed since the last modification.
C9_StrictlyMoreThanInterval ==
    PastAllGates => (result.value <=> (now - pre.mtime > MIN_REFRESH_INTERVAL))

\* C9 amended: past the gates, needs_refresh is TRUE exactly when at least
\* 3 hours have passed since the last modification.
C9_AtLeastInterval ==
    PastAllGates => (result.value <=> (now - pre.mtime >= MIN_REFRESH_INTERVAL))

C9_Witness ==
    /\ PastAllGates
    /\ now - pre.mtime = MIN_REFRESH_INTERVAL
    /\ result.value

IsCachePath == op.name = "_cache_path"
Csv == <<".", "c", "s", "v">>
Invalid == <<"_", "i", "n", "v", "a", "l", "i", "d", "_">>
FileNameOf(path) == path[Len(path)]

\* C10: for every code the cache file is a direct child of the data
\* directory; its name is the code with every character other than a word
\* character, "-" or "." replaced by "_", or _invalid_ for "", "." and "..".
C10_Sanitized ==
    IsCachePath
    => /\ Len(result.path) = Len(DataDir) + 1
       /\ Parent(result.path) = DataDir
       /\ IF op.code \in {<<>>, <<".">>, <<".", ".">>}
          THEN FileNameOf(result.path) = Invalid \o Csv
          ELSE /\ Len(FileNameOf(result.path)) = Len(op.code) + Len(Csv)
               /\ \A i \in DOMAIN op.code :
                     FileNameOf(result.path)[i] =
                        IF op.code[i] \in WordChars \cup {"-", "."}
                        THEN op.code[i] ELSE "_"
               /\ \A i \in DOMAIN Csv :
                     FileNameOf(result.path)[Len(op.code) + i] = Csv[i]

C10_Witness ==
    /\ IsCachePath
    /\ op.code = <<".", ".", "/">>
    /\ result.path = DataDir \o << <<".", ".", "_", ".", "c", "s", "v">> >>

----------------------------------------------------------------------------
(* Per-code independence *)

\* C11: for any two different codes A and B, a fetch for A changes neither
\* the persisted series nor the modification time of the cache that
\* load_cache, needs_refresh and fetch read for B.
C11_PerCodeIndependence ==
    [][(pc = "idle" /\ pc' = "done" /\ op'.name = "fetch")
       => \A b \in PairCodes \ {op'.code} :
             files'[CachePath(b)] = files[CachePath(b)]]_vars

----------------------------------------------------------------------------
(* Unreadable cache files *)

Unparsable(file) == Exists(file) /\ LoadCacheFile(file).kind = "raise"

\* C12: when the cache file of the code exists but cannot be parsed, fetch
\* behaves as if there were no cache: it raises nothing because of the file,
\* calls the provider once for the full [start, end], and on provider
\* success overwrites the file with the fetched series.
C12_CorruptAsAbsent ==
    (IsFetch /\ Unparsable(pre))
    => /\ calls = <<Call(op.code, op.start, op.end)>>
       /\ result.kind = "raise" => (ProviderFailed /\ result = Raised(response.exc))
       /\ response.kind = "return"
          => /\ CacheNow.kind = "File"
             /\ CacheNow.rows \in SortValues(response.rows)

----------------------------------------------------------------------------
(* load_cache *)

IsLoadCache == pc = "done" /\ op.name = "load_cache"

\* the rows of a stored series with start <= date <= end, in stored order
StoredInRange(rows, start, end) ==
    LET F[i \in 0..Len(rows)] ==
            IF i = 0 THEN <<>>
            ELSE IF rows[i].date < start \/ rows[i].date > end THEN F[i - 1]
            ELSE Append(F[i - 1], rows[i])
    IN F[Len(rows)]

----------------------------------------------------------------------------
(* The display path *)

IsDisplay == pc = "done" /\ op.name = "_load_and_display"
CachedBefore == LoadCacheResult(pre, op.start, op.end)
CacheServed == IsDisplay /\ CachedBefore.kind = "FetchResult"

\* C14: whenever load_cache returns data, _load_and_display returns without
\* a provider call having been made between the cache read and its return.
C14_NonBlocking == CacheServed => calls = <<>>

\* C15: with a cache present, a provider fetch is made only if needs_refresh
\* is TRUE at that moment, and whatever the outcome of the refresh the call
\* raises nothing and returns the series load_cache read, is_fallback FALSE.
C15_DeferredRefresh ==
    CacheServed
    => /\ ProviderCalled => NeedsRefreshAt(pre, now)
       /\ result = Displayed(CachedBefore.df, pre.mtime, FALSE)

\* C16: once _background_refresh has run for a code, a further refresh
\* request for the code within 3 hours makes no provider call, whatever the
\* outcome of the first one and whatever the date or analysis period.
C16_Cooldown ==
    [][(/\ pc = "idle"
        /\ pc' = "done"
        /\ op'.name = "_load_and_display"
        /\ op'.refresh # "not requested"
        /\ \E r \in refreshed :
              r.code = op'.code /\ now - r.at < CACHE_DATA_TTL)
       => calls' = <<>>]_vars

----------------------------------------------------------------------------
(* Saving *)

\* C17: a load_cache or fetch of the code that runs while a save is in
\* progress reads either the complete series the file held before or the
\* complete series being saved, never an empty or partly written file.
C17_AtomicSave ==
    (pc = "done" /\ op.name \in {"load_cache", "fetch"} /\ pre.kind = "Saving")
    => LoadCacheFile(pre) \in {LoadCacheFile(pre.old),
                               LoadCacheFile(File(pre.new, pre.mtime))}

----------------------------------------------------------------------------
(* Drawdown events.  The drawdown at position i is
   (close - running maximum) / running maximum, undefined while the running
   maximum is 0. *)

IsEvents == op.name = "find_drawdown_events"
Events == result.events

RunMax(i) ==
    CHOOSE m \in {op.closes[j] : j \in 1..i} : \A j \in 1..i : op.closes[j] <= m

\* the drawdown at i is below the threshold
DrawdownBelow(i) ==
    /\ RunMax(i) > 0
    /\ (op.closes[i] - RunMax(i)) * op.threshold.den < op.threshold.num * RunMax(i)

\* the drawdown at i is zero or above (it is never negative under a negative
\* running maximum)
DrawdownRecovered(i) ==
    RunMax(i) < 0 \/ (RunMax(i) > 0 /\ op.closes[i] >= RunMax(i))

\* the series ends while an event is open
OpenAtEnd ==
    \E i \in DOMAIN op.closes :
        /\ DrawdownBelow(i)
        /\ \A j \in (i + 1)..Len(op.closes) : ~DrawdownRecovered(j)

\* C18: every event has peak_date <= trough_date and max_drawdown <=
\* threshold; recovery_days is None exactly when recovery_date is None; when
\* recovery_date is present, trough_date <= recovery_date and recovery_days
\* is the number of calendar days from trough_date to recovery_date.
C18_EventWellFormed ==
    IsEvents
    => \A k \in DOMAIN Events :
          LET e == Events[k]
          IN /\ e.peak_date <= e.trough_date
             /\ e.max_drawdown.den > 0
             /\ e.max_drawdown.num * op.threshold.den
                   <= op.threshold.num * e.max_drawdown.den
             /\ (e.recovery_days = <<>>) <=> (e.recovery_date = <<>>)
             /\ e.recovery_date # <<>>
                => /\ e.trough_date <= e.recovery_date[1]
                   /\ e.recovery_days = <<e.recovery_date[1] - e.trough_date>>

\* an event whose trough moved past the first breach and which recovered
\* across a weekend
C18_Witness ==
    /\ IsEvents
    /\ Len(Events) = 1
    /\ Len(op.closes) = 4
    /\ Events[1].peak_date = op.dates[1]
    /\ Events[1].trough_date = op.dates[3]
    /\ Events[1].recovery_days = <<3>>
    /\ Events[1].max_drawdown = Ratio(-2, 2)

\* C19: events come in chronological order with disjoint spans: each
\* event's peak_date is at or after the recovery_date of the event before
\* it, every event but the last has a recovery_date, and the last event has
\* none exactly when the series ends while an event is open.
C19_EventOrdering ==
    IsEvents
    => /\ \A k \in 2..Len(Events) :
             /\ Events[k - 1].recovery_date # <<>>
             /\ Events[k - 1].peak_date <= Events[k].peak_date
             /\ Events[k].peak_date >= Events[k - 1].recovery_date[1]
       /\ Events # <<>>
          => ((Events[Len(Events)].recovery_date = <<>>) <=> OpenAtEnd)

\* a second event that starts where the first one recovered and stays open
C19_Witness ==
    /\ IsEvents
    /\ Len(Events) = 2
    /\ Events[2].peak_date = Events[1].recovery_date[1]
    /\ Events[2].recovery_date = <<>>
    /\ OpenAtEnd

IndexOf(date) == CHOOSE i \in DOMAIN op.dates : op.dates[i] = date

\* The position after which event k may open: the start of the series or
\* the recovery of the event before it
EventStart(k) ==
    IF k = 1 THEN 0
    ELSE IF Events[k - 1].recovery_date = <<>> THEN Len(op.closes)
    ELSE IndexOf(Events[k - 1].recovery_date[1])

\* The position where event k opens: the first breach of the threshold
\* after EventStart(k), or 0 when there is none
OpenIdx(k) ==
    LET breaches == {i \in (EventStart(k) + 1)..Len(op.closes) : DrawdownBelow(i)}
    IN IF breaches = {} THEN 0
       ELSE CHOOSE i \in breaches : \A j \in breaches : i <= j

\* The positions event k spans: from its opening up to, but excluding, its
\* recovery, or up to the end of the series
SpanOf(k) ==
    LET open == OpenIdx(k)
        last == IF Events[k].recovery_date = <<>> THEN Len(op.closes)
                ELSE IndexOf(Events[k].recovery_date[1]) - 1
    IN IF open = 0 THEN {} ELSE open..last

\* The most recent position up to i whose close attains the running
\* maximum, as a tracker updated along the running-maximum computation has it
TrackedPeak(i) ==
    CHOOSE j \in 1..i :
        /\ op.closes[j] = RunMax(j)
        /\ \A k \in (j + 1)..i : op.closes[k] # RunMax(k)

\* the drawdown at i, under a positive running maximum, compared with x
DrawdownIs(i, x) == (op.closes[i] - RunMax(i)) * x.den = x.num * RunMax(i)
DrawdownAbove(i, x) == (op.closes[i] - RunMax(i)) * x.den > x.num * RunMax(i)

\* C25: when an event opens at index i, its peak is the latest index j < i
\* whose close equals the running maximum max(close[0..i]); this is the
\* index that tracking the most recent position attaining the running
\* maximum, incrementally during the running-maximum computation, yields.
C25_PeakLocation ==
    IsEvents
    => \A k \in DOMAIN Events :
          LET i == OpenIdx(k)
          IN /\ i # 0
             /\ \E j \in 1..(i - 1) :
                   /\ Events[k].peak_date = op.dates[j]
                   /\ op.closes[j] = RunMax(i)
                   /\ \A l \in (j + 1)..(i - 1) : op.closes[l] # RunMax(i)
                   /\ j = TrackedPeak(i)

\* an event whose high was touched twice before the fall: the peak is the
\* second touch
C25_Witness ==
    /\ IsEvents
    /\ Len(Events) = 1
    /\ OpenIdx(1) = 3
    /\ op.closes[1] = op.closes[2]
    /\ Events[1].peak_date = op.dates[2]
    /\ TrackedPeak(3) = 2

\* C26: for every emitted event, max_drawdown is the minimum drawdown over
\* all indices from the index where the threshold was first breached up to
\* but excluding the recovery index (or up to the series end if unrecovered),
\* and trough_date is the date of the first index that attains this minimum.
C26_TroughTracking ==
    IsEvents
    => \A k \in DOMAIN Events :
          LET span == SpanOf(k)
              low == Events[k].max_drawdown
          IN /\ span # {}
             /\ low.den > 0
             /\ \E t \in span :
                   /\ Events[k].trough_date = op.dates[t]
                   /\ DrawdownIs(t, low)
                   /\ \A j \in span :
                         IF j < t THEN DrawdownAbove(j, low)
                         ELSE DrawdownAbove(j, low) \/ DrawdownIs(j, low)

\* an open event whose low came after the first breach and was touched
\* again: the trough is the first touch
C26_Witness ==
    /\ IsEvents
    /\ Len(Events) = 1
    /\ Events[1].recovery_date = <<>>
    /\ \E t \in SpanOf(1) :
          /\ Events[1].trough_date = op.dates[t]
          /\ OpenIdx(1) < t
          /\ \E j \in SpanOf(1) : j > t /\ DrawdownIs(j, Events[1].max_drawdown)

\* C27: an open event closes exactly at the first later index whose drawdown
\* is >= 0 (a new high), and that index's date is the recovery_date; while
\* an event is open, a drawdown that rises back to or above the threshold
\* but stays below 0 does not close the event, and a renewed breach of the
\* threshold before recovery does not open a second event.
C27_EventClosing ==
    IsEvents
    => /\ \A k \in DOMAIN Events :
             LET open == OpenIdx(k)
                 later == {j \in (open + 1)..Len(op.closes) : DrawdownRecovered(j)}
             IN /\ open # 0
                /\ Events[k].recovery_date
                     = IF later = {} THEN <<>>
                       ELSE <<op.dates[CHOOSE j \in later : \A l \in later : j <= l]>>
       /\ LET spans == UNION {SpanOf(k) : k \in DOMAIN Events}
          IN \A i \in DOMAIN op.closes : DrawdownBelow(i) => i \in spans

\* an event that rose back to the threshold, short of its high, and closed
\* only at the new high after it
C27_Witness ==
    /\ IsEvents
    /\ Len(Events) = 1
    /\ Events[1].recovery_date # <<>>
    /\ \E i \in SpanOf(1) : ~DrawdownBelow(i) /\ ~DrawdownRecovered(i)

----------------------------------------------------------------------------
(* Scoring and analyze *)

IsAnalyze == op.name = "analyze"
IsScore(name) == pc = "done" /\ op.name = name
InScoreRange(x) == GreaterEq(x, Num(0)) /\ GreaterEq(Num(100), x)
Labels == {"strong buy", "consider buying", "wait and see", "stand by"}
ScoreFields == {"drawdown", "rarity", "rsi", "ma_deviation", "bollinger"}

\* x brought into [0, 100]
ClipTo(x) == IF Less(x, Num(0)) THEN Num(0) ELSE IF Less(Num(100), x) THEN Num(100) ELSE x

\* the height at x of the straight line that is 0 at zero_at and 100 at
\* full_at, brought into [0, 100]
Linear(x, zero_at, full_at) ==
    ClipTo(Div(Mul(Num(100), Sub(x, zero_at)), Sub(full_at, zero_at)))

\* value is exact, cut to a thousandth of a point
ToThousandth(value, exact) ==
    GreaterEq(exact, value) /\ Less(exact, Add(value, Ratio(1, 1000)))

\* C21: for every non-empty price history and every valid AnalysisConfig,
\* analyze returns a result (it does not raise) in which each of the five
\* sub-scores and total_score lies in [0, 100] and the label is one of the
\* four tiers; an indicator that is undefined at the last point is replaced
\* by its neutral value: drawdown 0, MA deviation 0, RSI 50, %B 0.5, and
\* return percentile 50 when there are no returns.
C21_GracefulDegradation ==
    (IsAnalyze /\ op.closes # <<>>)
    => /\ result.kind = "AnalysisResult"
       /\ \A f \in ScoreFields : InScoreRange(result.scores[f])
       /\ InScoreRange(result.total_score)
       /\ result.label \in Labels
       /\ IsNaN(Last(CalcDrawdown(op.closes))) => result.current_drawdown = Num(0)
       /\ IsNaN(Last(CalcMaDeviation(op.closes, op.config.ma_days)))
             => result.current_ma_deviation = Num(0)
       /\ IsNaN(Last(CalcRsi(op.closes, op.config.rsi_period)))
             => result.current_rsi = Num(50)
       /\ IsNaN(Last(CalcPercentB(op.closes, op.config.bb_period, op.config.bb_std)))
             => result.current_bb_percent_b = Ratio(1, 2)
       /\ CalcDailyReturns(op.closes) = <<>> => result.return_percentile = Num(50)

\* a history longer than every window whose closes never move: RSI and %B
\* are undefined at the last point and the result carries 50 and 0.5
C21_Witness ==
    /\ IsAnalyze
    /\ Len(op.closes) > op.config.rsi_period
    /\ \A i \in 1..Len(op.closes) : op.closes[i] = op.closes[1]
    /\ op.closes[1] > 0
    /\ result.kind = "AnalysisResult"
    /\ result.current_rsi = Num(50)
    /\ result.current_bb_percent_b = Ratio(1, 2)
    /\ result.label = "stand by"

\* C22: the scoring curves are exact at their boundaries, linear in between
\* and clipped to [0, 100]: drawdown 0 -> 0, -0.15 -> 50, <= -0.30 -> 100;
\* RSI >= 70 -> 0, 45 -> 50, <= 20 -> 100; MA deviation >= 0 -> 0,
\* -0.05 -> 50, <= -0.10 -> 100; %B >= 1.0 -> 0, 0.25 -> 50, <= -0.5 -> 100;
\* and the composite is 0.30*drawdown + 0.25*rarity + 0.20*RSI
\* + 0.15*MA-deviation + 0.10*Bollinger, clipped to [0, 100].
C22_ScoringCurves ==
    /\ IsScore("_score_drawdown")
       => LET dd == op.args.dd
          IN /\ dd.num = 0 => result.value = Num(0)
             /\ dd = Ratio(-15, 100) => result.value = Num(50)
             /\ GreaterEq(Ratio(-30, 100), dd) => result.value = Num(100)
             /\ ToThousandth(result.value, Linear(dd, Num(0), Ratio(-30, 100)))
    /\ IsScore("_score_rsi")
       => LET rsi == op.args.rsi
          IN /\ GreaterEq(rsi, Num(70)) => result.value = Num(0)
             /\ rsi = Num(45) => result.value = Num(50)
             /\ GreaterEq(Num(20), rsi) => result.value = Num(100)
             /\ ToThousandth(result.value, Linear(rsi, Num(70), Num(20)))
    /\ IsScore("_score_ma_deviation")
       => LET deviation == op.args.deviation
          IN /\ GreaterEq(deviation, Num(0)) => result.value = Num(0)
             /\ deviation = Ratio(-5, 100) => result.value = Num(50)
             /\ GreaterEq(Ratio(-10, 100), deviation) => result.value = Num(100)
             /\ ToThousandth(result.value, Linear(deviation, Num(0), Ratio(-10, 100)))
    /\ IsScore("_score_bollinger")
       => LET percent_b == op.args.percent_b
          IN /\ GreaterEq(percent_b, Num(1)) => result.value = Num(0)
             /\ percent_b = Ratio(25, 100) => result.value = Num(50)
             /\ GreaterEq(Ratio(-50, 100), percent_b) => result.value = Num(100)
             /\ ToThousandth(result.value, Linear(percent_b, Num(1), Ratio(-50, 100)))
    /\ IsScore("_total_score")
       => result.value
            = ClipTo(Reduce(30 * op.args.drawdown.num + 25 * op.args.rarity.num
                              + 20 * op.args.rsi.num
                              + 15 * op.args.ma_deviation.num
                              + 10 * op.args.bollinger.num, 100))

\* %B on the quarter mark between the bands scores 50
C22_Witness ==
    /\ IsScore("_score_bollinger")
    /\ op.args.percent_b = Ratio(25, 100)
    /\ result.value = Num(50)

\* C23: _score_rarity(percentile, window) multiplies the base linear rarity
\* score (0 at percentile >= 50, 100 at percentile 0) by a window factor of
\* 0.85 for window = 1 and 1.15 for window = 3, capped at 100, so that
\* (50, 1) -> 0, (0, 1) -> 85, (25, 1) -> 42.5, (50, 3) -> 0, (0, 3) -> 100
\* and (25, 3) -> 57.5.
C23_WindowWeightedRarity ==
    (IsScore("_score_rarity") /\ op.args.window # <<>>)
    => LET base == Linear(op.args.percentile, Num(50), Num(0))
           factor == IF op.args.window = <<1>> THEN Ratio(85, 100)
                     ELSE Ratio(115, 100)
       IN /\ result.kind = "score"
          /\ result.value = ClipTo(Mul(base, factor))

\* C24: at every index where at least `period` samples have accumulated and
\* the smoothed average loss is 0 (no close so far is below the close before
\* it), calc_rsi yields 100, a defined value; and every defined RSI value
\* lies in [0, 100].
C24_RsiSaturation ==
    IsAnalyze
    => LET period == op.config.rsi_period
           rsi == CalcRsi(op.closes, period)
       IN \A i \in 1..Len(op.closes) :
             /\ (i > period /\ \A j \in 2..i : op.closes[j] >= op.closes[j - 1])
                   => rsi[i] = Num(100)
             /\ ~IsNaN(rsi[i]) => InScoreRange(rsi[i])

----------------------------------------------------------------------------
(* Failed fetches and completed checks *)

FetchFailed == IsFetch /\ (result.kind = "raise" \/ (IsResult /\ result.is_fallback))
FetchCompleted == IsFetch /\ IsResult /\ ~result.is_fallback

\* C28: a fetch that ends in FALLBACK or in FAIL leaves the persisted rows
\* and the last-modified time of the code's cache exactly as they were before
\* the call (FAIL creates no file), so the value of needs_refresh(code) is
\* not changed by a failed fetch; only SERVE_CACHE and MERGE_AND_SAVE advance
\* the last-modified time.
C28_FailedFetchNoEffect ==
    /\ FetchFailed
       => /\ CacheNow = pre
          /\ Exists(CacheNow) <=> Exists(pre)
          /\ NeedsRefreshAt(CacheNow, now) <=> NeedsRefreshAt(pre, now)
    /\ (IsFetch /\ CacheNow # pre)
       => /\ FetchCompleted
          /\ CacheNow.mtime = now

\* the provider fails an hour after the cache was written: the fallback
\* leaves the file with its old time
C28_Witness ==
    /\ FetchFailed
    /\ ProviderFailed
    /\ Exists(pre)
    /\ CacheNow.mtime < now
    /\ result.kind = "FetchResult"

ClockDays == DateOf(ClockStart)..DateOf(ClockStart + MaxClock)

\* C30: after a fetch for a code ends in SERVE_CACHE or MERGE_AND_SAVE at or
\* after the publish hour (10:00) on a business day, needs_refresh(code)
\* returns false at every later moment of that same calendar day, as long as
\* the cache file is not removed.
C30_CheckedForTheDay ==
    \A day \in ClockDays :
        []((/\ FetchCompleted
            /\ Today = day
            /\ IsJpBusinessDay(day)
            /\ HourOf(now) >= PUBLISH_HOUR)
           => []((IsNeedsRefresh /\ Today = day /\ Exists(pre)) => ~result.value))

\* needs_refresh answers at least three hours after the last completed
\* check of the same business day, made in the hour of publication
C30_Witness ==
    /\ IsNeedsRefresh
    /\ Exists(pre)
    /\ IsJpBusinessDay(Today)
    /\ DateOf(pre.mtime) = Today
    /\ HourOf(pre.mtime) = PUBLISH_HOUR
    /\ now - pre.mtime >= MIN_REFRESH_INTERVAL
    /\ ~result.value

\* C29: for a provider with fixed data and after any sequence of successful
\* fetch calls with arbitrary ranges for one code, whenever a
\* fetch(code, start, end) is served from cache without calling the provider,
\* the returned series contains every date in [start, end] for which the
\* provider has data.
C29_NoHoles ==
    (IsFetch /\ IsResult /\ ~ProviderCalled)
    => \A d \in op.start..op.end :
          d \in DatesOf(FixedRows) => d \in DatesOf(result.df)
====
